---- MODULE Spec2Model ----
(***************************************************************************)
(* The time-budgeted solve / verify / submit control loop of the quiz      *)
(* solver: app/main.py (handle_quiz), agents/orchestrator.py               *)
(* (OrchestratorAgent), app/utils/timer.py (QuizTimer) and app/storage.py  *)
(* (ResultStorage).                                                        *)
(*                                                                         *)
(* A chain runs as one asyncio task.  Its code is atomic between two       *)
(* awaits, so there is one action per await that returns (or raises); the  *)
(* action runs the code up to the next await.  Time is the wall clock read *)
(* by time.time(), in seconds; it advances only while something is         *)
(* awaited (action Tick).                                                  *)
(***************************************************************************)
EXTENDS Integers, Sequences, FiniteSets, TLC

\* ---------------------------------------------------------------- bounds
\* seconds that pass in one Tick
TimeStep == 90
\* the clock stops advancing after MaxTime seconds
MaxTime == 200
\* the remote system returns a next URL only for quizzes before this one
MaxQuizzes == 2
\* requests sent to POST /quiz
MaxRequests == 1
\* the last second at which a timer on its own is started or read
MaxClock == 40

\* ------------------------------------------------------ program constants
\* QuizTimer.submission_buffer
SubmissionBuffer == 30
\* Settings.quiz_timeout (default)
DefaultQuizTimeout == 180
\* Settings.max_retries (default)
DefaultMaxRetries == 3
\* max_refinement_iterations in _solve_quiz_with_verification
MaxRefinementIterations == 2
\* Settings.request_timeout, the timeout of chat_completion (seconds)
RequestTimeout == 30
\* Settings.browser_timeout, the timeout of page.goto (seconds)
BrowserTimeout == 60
\* the timeout of the httpx client of _submit_answer (seconds)
SubmitTimeout == 30

\* Python's None, as it appears in a field that otherwise holds a string
None == "None"
\* Python's None in a field that otherwise holds a time
NoTime == -1

SessionIds == {"s1", "s2"}

\* values of the settings the control loop reads (app/config.py)
QuizTimeoutValues == {SubmissionBuffer, 120, DefaultQuizTimeout}
MaxRetriesValues == {0, 1, DefaultMaxRetries}

\* timeouts of a timer on its own: none, below, equal to, just above and
\* well above the submission buffer
TimerTimeouts ==
    {0, SubmissionBuffer - 1, SubmissionBuffer, SubmissionBuffer + 1, 60}

\* the texts str(e) of the exceptions that can be raised; asyncio.TimeoutError()
\* and other exceptions built without arguments have the empty text
ExcMessages == {"", "boom"}

\* the texts str(e) of the transport errors of client.post
TransportErrors == {"connect failed"}

\* the texts str(e) of the exceptions of response.json() and result.get for
\* a body that is not a JSON object
JsonErrors == {"Expecting value"}

\* HTTP status codes the submit target answers with
StatusCodes == {200, 500}

Max(a, b) == IF a >= b THEN a ELSE b
Min(a, b) == IF a <= b THEN a ELSE b

\* the empty string taken for a text
Truthy_NotNone(x) == x # None

\* Python truthiness of an Optional[str]
Truthy(x) == x # None /\ x # ""

VARIABLES
    now,        \* time.time()
    settings,   \* app.config.settings: the fields the control loop reads
    sessions,   \* storage._sessions: session id -> SessionResult
    chain,      \* session id -> the frame of its process_quiz task
    fresh,      \* the session ids uuid.uuid4() has not produced yet
    responses,  \* the HTTP answers of handle_quiz, in order
    clock,      \* a QuizTimer on its own and the last reading made of it
    call        \* a call of AnalyzerAgent.analyze on its own

vars == <<now, settings, sessions, chain, fresh, responses, clock, call>>

\* ------------------------------------------------------------- QuizTimer
\* QuizTimer.__init__ at time t: timeout or settings.quiz_timeout
QuizTimer(t) ==
    [timeout |-> settings.quiz_timeout,
     start_time |-> t,
     submission_buffer |-> SubmissionBuffer]

elapsed(timer, t) == t - timer.start_time

remaining(timer, t) == Max(0, timer.timeout - elapsed(timer, t))

\* has_buffer_time that counts the second in which the buffer begins
has_buffer_time_Inclusive(timer, t) ==
    remaining(timer, t) >= timer.submission_buffer

has_buffer_time(timer, t) == remaining(timer, t) > timer.submission_buffer

\* get_timeout_for_operation(percentage=0.3), in tenths of a second:
\* min(max(5, available * 0.3), 60)
get_timeout_for_operation(timer, t) ==
    LET available == remaining(timer, t) - timer.submission_buffer
    IN  Min(Max(50, available * 3), 600)

\* should_continue without the test of the submission buffer
should_continue_UntilExpired(timer, t) ==
    IF remaining(timer, t) <= 0 THEN FALSE
    ELSE TRUE

should_continue(timer, t) ==
    IF remaining(timer, t) <= 0 THEN FALSE
    ELSE IF remaining(timer, t) <= timer.submission_buffer THEN FALSE
    ELSE TRUE

\* --------------------------------------------------------- ResultStorage
\* SessionResult as create_session builds it
NewSession(email, t) ==
    [email |-> email,
     status |-> "processing",
     start_time |-> t,
     end_time |-> NoTime,
     total_quizzes |-> 0,
     correct_answers |-> 0,
     attempts |-> <<>>,
     error |-> None]

RECURSIVE CountCorrect(_)
\* sum(1 for a in session.attempts if a.correct)
CountCorrect(as) ==
    IF as = <<>> THEN 0
    ELSE (IF Head(as).correct THEN 1 ELSE 0) + CountCorrect(Tail(as))

\* ResultStorage.create_session
create_session(store, sid, email, t) ==
    [x \in DOMAIN store \cup {sid} |->
        IF x = sid THEN NewSession(email, t) ELSE store[x]]

\* add_attempt with the counter of correct answers bumped for every attempt
add_attempt_CountsAll(store, sid, attempt) ==
    IF sid \in DOMAIN store
    THEN [store EXCEPT ![sid] =
            [@ EXCEPT !.attempts = Append(@, attempt),
                      !.total_quizzes = Len(store[sid].attempts) + 1,
                      !.correct_answers = @ + 1]]
    ELSE store

\* ResultStorage.add_attempt
add_attempt(store, sid, attempt) ==
    IF sid \in DOMAIN store
    THEN [store EXCEPT ![sid] =
            [@ EXCEPT !.attempts = Append(@, attempt),
                      !.total_quizzes = Len(store[sid].attempts) + 1,
                      !.correct_answers =
                          CountCorrect(Append(store[sid].attempts, attempt))]]
    ELSE store

\* complete_session that marks every session of the store
complete_session_All(store, sid, error, t) ==
    [x \in DOMAIN store |->
        [store[x] EXCEPT
            !.status = IF Truthy(error) THEN "failed" ELSE "completed",
            !.end_time = t,
            !.error = error]]

\* ResultStorage.complete_session (through update_session); error is None
\* or the text str(e), and "if error" is Python truthiness
complete_session(store, sid, error, t) ==
    IF sid \in DOMAIN store
    THEN [store EXCEPT ![sid] =
            [@ EXCEPT !.status = IF Truthy(error) THEN "failed" ELSE "completed",
                      !.end_time = t,
                      !.error = error]]
    ELSE store

\* ------------------------------------------------------ process_quiz frame
NoResult == [answer |-> None, confidence |-> 0]
NoSubmission == [correct |-> FALSE, reason |-> None, next_url |-> None]
NoVerification == [approved |-> FALSE, confidence |-> 0, feedback |-> None]
NoBody == [correct |-> FALSE, reason |-> None, url |-> None]

\* the frame before the task runs.  The fields after submission_result are
\* history, kept to state the properties: when process_quiz began, the
\* elapsed time log_status printed at the last step entry, should_continue()
\* at the entry of _submit_answer, the POSTs made by the current call and how
\* each ended, whether "No time for retries" was logged, the exception that
\* escaped the step, the calls of complete_session.  verification is the
\* local of line 174; after it comes the history of the current call of
\* _solve_quiz_with_verification: the stage of the last verify call that
\* failed, the calls of analyze and of verify made so far, what the first
\* analyze returned, has_buffer_time() at line 165; last_body is the JSON
\* body of the 200 answer that ended _submit_answer
IdleChain ==
    [pc |-> "idle",
     timer |-> [timeout |-> 0, start_time |-> 0, submission_buffer |-> 0],
     current_url |-> None,
     quiz_number |-> 0,
     submit_url |-> None,
     analysis_result |-> NoResult,
     attempt |-> 0,
     iteration |-> 0,
     retry |-> 0,
     submission_result |-> NoSubmission,
     started_at |-> 0,
     step_elapsed |-> 0,
     entry_cont |-> FALSE,
     posts |-> 0,
     post_log |-> <<>>,
     no_time |-> FALSE,
     raised |-> FALSE,
     exc |-> None,
     complete_calls |-> 0,
     verification |-> NoVerification,
     checker_fault |-> None,
     solver_calls |-> 0,
     checker_calls |-> 0,
     initial_result |-> NoResult,
     entry_buffer |-> FALSE,
     last_body |-> NoBody]

\* a pair (frame, store) as the operators below return it
Pair(c, store) == [c |-> c, st |-> store]

\* the locals of _solve_quiz_with_verification, dead once it returns at line
\* 200, and the counts of its calls, back to their initial values
SolveLocalsCleared(c) ==
    [c EXCEPT !.attempt = 0, !.iteration = 0,
              !.verification = NoVerification, !.checker_fault = None,
              !.solver_calls = 0, !.checker_calls = 0]

\* the locals of a step that nothing reads once its attempt is recorded,
\* and the history of its two calls, back to their initial values
StepLocalsCleared(c) ==
    [SolveLocalsCleared(c) EXCEPT
              !.submit_url = None, !.analysis_result = NoResult,
              !.retry = 0,
              !.posts = 0, !.post_log = <<>>, !.no_time = FALSE,
              !.entry_cont = FALSE,
              !.initial_result = NoResult, !.entry_buffer = FALSE,
              !.last_body = NoBody]

\* process_quiz, lines 110-113 and 127-130: the inner handler finalizes the
\* session and re-raises, the outer handler finalizes it again and re-raises
Abort(c, store, sid, msg, t) ==
    Pair([StepLocalsCleared(c) EXCEPT !.pc = "done", !.raised = TRUE,
                                      !.exc = msg,
                                      !.complete_calls = @ + 2],
         complete_session(complete_session(store, sid, msg, t), sid, msg, t))

\* the end of the loop recorded as a failure of the session
Finish_AsTimeout(c, store, sid, t) ==
    Pair([c EXCEPT !.pc = "done", !.complete_calls = @ + 1],
         complete_session(store, sid, "timeout", t))

\* process_quiz, line 116: the loop has ended without an exception
Finish(c, store, sid, t) ==
    Pair([c EXCEPT !.pc = "done", !.complete_calls = @ + 1],
         complete_session(store, sid, None, t))

\* the test of the while loop without the timer
LoopCondition_UrlOnly(c, t) == Truthy(c.current_url)

\* process_quiz, line 57: the test of the while loop
LoopCondition(c, t) == Truthy(c.current_url) /\ should_continue(c.timer, t)

\* the loop test with a timer built anew for each step
LoopTest_Rearmed(c, store, sid, t) ==
    IF Truthy(c.current_url) /\ should_continue(QuizTimer(t), t)
    THEN Pair([c EXCEPT !.pc = "fetch",
                        !.timer = QuizTimer(t),
                        !.step_elapsed = elapsed(QuizTimer(t), t)], store)
    ELSE Finish(c, store, sid, t)

\* process_quiz, lines 57-66: the loop test, then log_status and the fetch
\* is awaited, or the loop ends
LoopTest(c, store, sid, t) ==
    IF LoopCondition(c, t)
    THEN Pair([c EXCEPT !.pc = "fetch",
                        !.step_elapsed = elapsed(c.timer, t)], store)
    ELSE Finish(c, store, sid, t)

\* QuizAttempt built without the reason of the submission result
QuizAttempt_NoReason(c, t) ==
    [quiz_number |-> c.quiz_number,
     url |-> c.current_url,
     answer |-> c.analysis_result.answer,
     correct |-> c.submission_result.correct,
     reason |-> None,
     confidence |-> c.analysis_result.confidence,
     next_url |-> c.submission_result.next_url]

\* QuizAttempt built at lines 87-97, without its question and timestamp
QuizAttempt(c, t) ==
    [quiz_number |-> c.quiz_number,
     url |-> c.current_url,
     answer |-> c.analysis_result.answer,
     correct |-> c.submission_result.correct,
     reason |-> c.submission_result.reason,
     confidence |-> c.analysis_result.confidence,
     next_url |-> c.submission_result.next_url]

\* the next URL followed only after a correct answer
Advance_OnlyIfCorrect(c, store, sid, t) ==
    IF Truthy(c.submission_result.next_url) /\ c.submission_result.correct
    THEN LoopTest([c EXCEPT !.current_url = c.submission_result.next_url,
                            !.quiz_number = @ + 1], store, sid, t)
    ELSE Finish(c, store, sid, t)

\* process_quiz, lines 100-108: follow the next URL or leave the loop
Advance(c, store, sid, t) ==
    IF Truthy(c.submission_result.next_url)
    THEN LoopTest([c EXCEPT !.current_url = c.submission_result.next_url,
                            !.quiz_number = @ + 1], store, sid, t)
    ELSE Finish(c, store, sid, t)

\* the attempt of a step appended twice
RecordAttempt_Twice(c, store, sid, t) ==
    Advance(StepLocalsCleared(c),
            add_attempt(add_attempt(store, sid, QuizAttempt(c, t)), sid,
                        QuizAttempt(c, t)), sid, t)

\* process_quiz, lines 86-108 and back to line 57
RecordAttempt(c, store, sid, t) ==
    Advance(StepLocalsCleared(c),
            add_attempt(store, sid, QuizAttempt(c, t)), sid, t)

\* ---------------------------------------------------------- _submit_answer
\* the reason built at line 277
HttpReason(status) == "HTTP " \o ToString(status)

\* _submit_answer returns: the frame holds its result, process_quiz resumes
\* at line 86
SubmitReturn(c, result) ==
    [c EXCEPT !.pc = "record", !.submission_result = result]

\* _submit_answer, lines 292-296: the for loop ended without a return
SubmitExhausted(c) ==
    SubmitReturn(c, [correct |-> FALSE, reason |-> "Max retries exceeded",
                     next_url |-> None])

\* the time test applied to the first attempt too
NoTimeForRetry_AnyAttempt(c, t) == ~should_continue(c.timer, t)

\* _submit_answer, line 239: the retry is given up for lack of time
NoTimeForRetry(c, t) == ~should_continue(c.timer, t) /\ c.retry > 0

\* the head of the for loop without the time test of line 239
SubmitLoop_NoTimeTest(c, t) ==
    IF c.retry >= settings.max_retries THEN SubmitExhausted(c)
    ELSE [c EXCEPT !.pc = "post", !.posts = @ + 1]

\* _submit_answer, lines 238-248: the head of the for loop for c.retry, up
\* to the POST being awaited
SubmitLoop(c, t) ==
    IF c.retry >= settings.max_retries THEN SubmitExhausted(c)
    ELSE IF NoTimeForRetry(c, t)
         THEN SubmitExhausted([c EXCEPT !.no_time = TRUE])
         ELSE [c EXCEPT !.pc = "post", !.posts = @ + 1]

\* the entry without the test of the submit URL
SubmitEntry_NoUrlTest(c, t) ==
    SubmitLoop([SolveLocalsCleared(c) EXCEPT
                         !.retry = 0, !.posts = 0, !.post_log = <<>>,
                         !.no_time = FALSE,
                         !.entry_cont = should_continue(c.timer, t)], t)

\* _solve_quiz_with_verification has returned (line 200) and process_quiz
\* calls _submit_answer (line 79), lines 221-238: entry
SubmitEntry(c, t) ==
    LET c0 == [SolveLocalsCleared(c) EXCEPT
                        !.retry = 0, !.posts = 0, !.post_log = <<>>,
                        !.no_time = FALSE,
                        !.entry_cont = should_continue(c.timer, t)]
    IN  IF ~Truthy(c.submit_url)
        THEN SubmitReturn(c0, [correct |-> FALSE,
                               reason |-> "No submit URL found",
                               next_url |-> None])
        ELSE SubmitLoop(c0, t)

\* the test of the last iteration off by one
RetriesRemain_OffByOne(c) == c.retry < settings.max_retries

\* _submit_answer, lines 272 and 283: another iteration follows this one
RetriesRemain(c) == c.retry < settings.max_retries - 1

\* the failure of the last attempt reported without its detail
SubmitFailed_NoDetail(c, reason) ==
    LET c1 == [c EXCEPT !.post_log = Append(@, reason)]
    IN  IF RetriesRemain(c)
        THEN [c1 EXCEPT !.pc = "sleep"]
        ELSE SubmitExhausted(c1)

\* _submit_answer, lines 270-290: the attempt failed with the detail reason
\* (HTTP status or str(e)): sleep and continue, or return the failure
SubmitFailed(c, reason) ==
    LET c1 == [c EXCEPT !.post_log = Append(@, reason)]
    IN  IF RetriesRemain(c)
        THEN [c1 EXCEPT !.pc = "sleep"]
        ELSE SubmitReturn(c1, [correct |-> FALSE, reason |-> reason,
                               next_url |-> None])

\* a 200 answer that judges the answer incorrect retried while retries
\* remain
SubmitAnswered_RetryIfIncorrect(c, body) ==
    LET c1 == [c EXCEPT !.post_log = Append(@, "200"), !.last_body = body]
    IN  IF ~body.correct /\ RetriesRemain(c)
        THEN [c1 EXCEPT !.pc = "sleep"]
        ELSE SubmitReturn(c1, [correct |-> body.correct,
                               reason |-> body.reason,
                               next_url |-> body.url])

\* _submit_answer, lines 252-269: the body of a 200 answer is returned
SubmitAnswered(c, body) ==
    SubmitReturn([c EXCEPT !.post_log = Append(@, "200"),
                           !.last_body = body],
                 [correct |-> body.correct, reason |-> body.reason,
                  next_url |-> body.url])

\* ----------------------------------------- _solve_quiz_with_verification
\* the verification loop entered whatever the setting and the timer say
VerificationEntered_Always(c, t) == TRUE

\* line 165: the verification loop is entered
VerificationEntered(c, t) ==
    settings.enable_verification /\ has_buffer_time(c.timer, t)

\* the time test made at the first round only
NoTimeForVerification_FirstRoundOnly(c, t) ==
    ~should_continue(c.timer, t) /\ c.iteration = 0

\* line 167: the round is given up for lack of time
NoTimeForVerification(c, t) == ~should_continue(c.timer, t)

\* the for loop running one iteration more
RefineLoop_OneMore(c, t) ==
    IF c.iteration > MaxRefinementIterations THEN SubmitEntry(c, t)
    ELSE IF NoTimeForVerification(c, t) THEN SubmitEntry(c, t)
    ELSE [c EXCEPT !.pc = "verify", !.checker_calls = @ + 1]

\* lines 166-178: the head of the for loop for c.iteration, up to the
\* verifier being awaited; leaving the loop returns the current result
RefineLoop(c, t) ==
    IF c.iteration >= MaxRefinementIterations THEN SubmitEntry(c, t)
    ELSE IF NoTimeForVerification(c, t) THEN SubmitEntry(c, t)
    ELSE [c EXCEPT !.pc = "verify", !.checker_calls = @ + 1]

\* the result of a regeneration dropped in favour of the initial one
Analyzed_KeepsInitial(c, result, t) ==
    IF c.iteration < 0
    THEN LET c2 == [c EXCEPT !.analysis_result = result,
                             !.initial_result = result,
                             !.entry_buffer = has_buffer_time(c.timer, t)]
         IN  IF VerificationEntered(c2, t)
             THEN RefineLoop([c2 EXCEPT !.iteration = 0], t)
             ELSE SubmitEntry(c2, t)
    ELSE RefineLoop([c EXCEPT !.iteration = @ + 1], t)

\* lines 156-166 and 189-198: analyze has returned result
Analyzed(c, result, t) ==
    LET c1 == [c EXCEPT !.analysis_result = result]
    IN  IF c.iteration < 0
        THEN LET c2 == [c1 EXCEPT !.initial_result = result,
                                  !.entry_buffer = has_buffer_time(c.timer, t)]
             IN  IF VerificationEntered(c2, t)
                 THEN RefineLoop([c2 EXCEPT !.iteration = 0], t)
                 ELSE SubmitEntry(c2, t)
        ELSE RefineLoop([c1 EXCEPT !.iteration = @ + 1], t)

\* the loop going on after an approval that comes with feedback
Verified_NoBreakOnApproval(c, t) ==
    IF Truthy(c.verification.feedback)
    THEN [c EXCEPT !.pc = "analyze", !.attempt = @ + 1,
                   !.solver_calls = @ + 1]
    ELSE SubmitEntry(c, t)

\* lines 180-198: the verifier has returned c.verification
Verified(c, t) ==
    IF c.verification.approved THEN SubmitEntry(c, t)
    ELSE IF Truthy(c.verification.feedback)
         THEN [c EXCEPT !.pc = "analyze", !.attempt = @ + 1,
                        !.solver_calls = @ + 1]
         ELSE SubmitEntry(c, t)

\* ------------------------------------------------------ VerifierAgent.verify
\* verifier.py, lines 76-83: the result returned by the except clause
FailOpen == [approved |-> TRUE, confidence |-> 50, feedback |-> None]

\* _parse_verification_response, lines 133-166: the reply text parsed as
\* JSON, or searched for a word of approval when it is not JSON
parse_verification_response(reply) ==
    IF reply.json
    THEN [approved |-> reply.approved, confidence |-> reply.confidence,
          feedback |-> reply.feedback]
    ELSE IF reply.keyword
         THEN [approved |-> TRUE, confidence |-> 70, feedback |-> None]
         ELSE [approved |-> FALSE, confidence |-> 70, feedback |-> reply.text]

\* a failed model call turned into a rejection
verify_FailClosed(reply) ==
    IF reply.raises
    THEN [approved |-> FALSE, confidence |-> 50, feedback |-> "error"]
    ELSE parse_verification_response(reply)

\* verify, lines 54-83: the result for what chat_completion did
verify(reply) ==
    IF reply.raises THEN FailOpen ELSE parse_verification_response(reply)

\* the stage of verify that failed for a reply: the model call, the parsing
\* of its reply as JSON, or none
FailedStage(reply) ==
    IF reply.raises THEN "call"
    ELSE IF ~reply.json THEN "parse"
    ELSE None

\* ------------------------------------------------------------ environment
\* what AnalyzerAgent.analyze returns for an attempt index; the answer text
\* tells which call produced it, the confidence is in hundredths
AnalyzeResults(attempt) ==
    {[answer |-> "answer" \o ToString(attempt), confidence |-> 80]}

\* a reply of the verifier model that is a JSON object with the three keys,
\* confidence in hundredths
JsonReply(approved, feedback) ==
    [raises |-> FALSE, json |-> TRUE, approved |-> approved,
     confidence |-> 90, feedback |-> feedback, keyword |-> FALSE,
     text |-> "json"]

\* a reply that is not JSON, with or without one of the words 'approve',
\* 'correct', 'looks good', 'valid'
TextReply(keyword) ==
    [raises |-> FALSE, json |-> FALSE, approved |-> FALSE,
     confidence |-> 0, feedback |-> None, keyword |-> keyword,
     text |-> IF keyword THEN "looks good" ELSE "try again"]

\* what client.chat_completion does in verify: it raises, or returns a reply
VerifierReplies ==
    {[raises |-> TRUE, json |-> FALSE, approved |-> FALSE, confidence |-> 0,
      feedback |-> None, keyword |-> FALSE, text |-> ""],
     JsonReply(TRUE, None), JsonReply(FALSE, "fix"), JsonReply(FALSE, None),
     JsonReply(TRUE, "nit"), JsonReply(FALSE, ""),
     TextReply(TRUE), TextReply(FALSE)}

\* the JSON body of a 200 answer of the submit target: result.get("correct",
\* False), result.get("reason"), result.get("url")
Bodies(c) ==
    {[correct |-> b, reason |-> IF b THEN None ELSE "wrong", url |-> u] :
        b \in BOOLEAN,
        u \in IF c.quiz_number < MaxQuizzes THEN {None, "next"} ELSE {None}}

\* the bodies of POST /quiz that pass validation: EmailStr, str, str
Requests ==
    [email : {"me@example.com", "other@example.com"},
     secret : {"secret", "wrong", ""},
     url : {"first"}]

\* the network-bound calls a chain awaits
NetworkCalls == {"fetch", "analyze", "verify", "post"}

\* the timeout the code gives to the call frame c awaits, in tenths of a
\* second: page.goto, chat_completion, client.post
CallTimeout(c) ==
    IF c.pc = "fetch" THEN BrowserTimeout * 10
    ELSE IF c.pc \in {"analyze", "verify"} THEN RequestTimeout * 10
    ELSE SubmitTimeout * 10

\* the await points of a chain; time passes while a chain is at one of them,
\* or waits to be run as a background task
Awaiting == {"scheduled", "fetch", "analyze", "verify", "post", "sleep"}

\* no timer on its own has been built
NoClock ==
    [armed |-> FALSE,
     timer |-> [timeout |-> 0, start_time |-> 0, submission_buffer |-> 0],
     read |-> FALSE, read_at |-> 0, continues |-> FALSE, remains |-> 0,
     buffer_time |-> FALSE]

\* no call of analyze on its own has been made.  After the result fields:
\* whether execute_code is awaited; then history: the answer and the
\* confidence as parsed, the runs of the generated code, whether the last run
\* succeeded and what it printed
NoCall ==
    [stage |-> "idle", answer |-> None, confidence |-> 0,
     code_executed |-> None, stated |-> None, parsed_confidence |-> 0,
     executions |-> 0, success |-> FALSE, output |-> <<>>]

\* ------------------------------------------------------------------ Init
Init ==
    /\ now = 0
    /\ settings \in [quiz_timeout : QuizTimeoutValues,
                     max_retries : MaxRetriesValues,
                     enable_verification : BOOLEAN,
                     email : {"me@example.com"},
                     quiz_secret : {"secret", ""}]
    /\ sessions = [x \in {} |-> NewSession(None, 0)]
    /\ chain = [s \in SessionIds |-> IdleChain]
    /\ fresh = {"s1"}
    /\ responses = <<>>
    /\ clock = NoClock
    /\ call = NoCall

\* --------------------------------------------------------------- actions
\* the email check left out
AuthStatus_NoEmailCheck(req) ==
    IF req.secret = "" THEN 403
    ELSE IF settings.quiz_secret = "" THEN 500
    ELSE IF req.secret # settings.quiz_secret THEN 403
    ELSE 200

\* auth.verify_email then auth.verify_secret: the status of the HTTPException
\* raised, or 200
AuthStatus(req) ==
    IF req.email # settings.email THEN 403
    ELSE IF req.secret = "" THEN 403
    ELSE IF settings.quiz_secret = "" THEN 500
    ELSE IF req.secret # settings.quiz_secret THEN 403
    ELSE 200

\* the credentials of the request equal the configured ones
CredentialsMatch(req) ==
    req.email = settings.email /\ req.secret = settings.quiz_secret

\* main.handle_quiz, while fewer than limit requests have been answered; the
\* answer is logged with whether the credentials of its request matched
HandleQuizWithin(req, limit) ==
    /\ Len(responses) < limit
    /\ IF AuthStatus(req) = 200
       THEN \E sid \in fresh :
              /\ fresh' = fresh \ {sid}
              /\ sessions' = create_session(sessions, sid, req.email, now)
              /\ chain' = [chain EXCEPT ![sid] =
                             [IdleChain EXCEPT !.pc = "scheduled",
                                               !.current_url = req.url]]
              /\ responses' = Append(responses,
                     [status |-> 200, body |-> "processing",
                      session_id |-> sid, matched |-> CredentialsMatch(req)])
       ELSE /\ responses' = Append(responses,
                     [status |-> AuthStatus(req), body |-> "error",
                      session_id |-> None, matched |-> CredentialsMatch(req)])
            /\ UNCHANGED <<fresh, sessions, chain>>
    /\ UNCHANGED <<now, settings, clock, call>>

\* main.handle_quiz for the requests of Spec
HandleQuiz(req) == HandleQuizWithin(req, MaxRequests)

\* the frame and the store after a step of chain s
Apply(s, pair) ==
    /\ chain' = [chain EXCEPT ![s] = pair.c]
    /\ sessions' = pair.st
    /\ UNCHANGED <<now, settings, fresh, responses, clock, call>>

\* process_quiz, lines 45-66: the timer is built, then the loop is entered
ProcessQuizStart(s) ==
    /\ chain[s].pc = "scheduled"
    /\ Apply(s, LoopTest([chain[s] EXCEPT !.timer = QuizTimer(now),
                                          !.started_at = now,
                                          !.quiz_number = 1],
                         sessions, s, now))

\* fetch_quiz_page returns a task, with or without a submit URL; line 156
\* awaits the first analysis
FetchReturn(s, submit_url) ==
    /\ chain[s].pc = "fetch"
    /\ Apply(s, Pair([chain[s] EXCEPT !.pc = "analyze",
                                      !.submit_url = submit_url,
                                      !.analysis_result = NoResult,
                                      !.attempt = 0,
                                      !.iteration = -1,
                                      !.solver_calls = 1], sessions))

\* fetch_quiz_page raises (fetcher.py, lines 64-71)
FetchRaise(s, msg) ==
    /\ chain[s].pc = "fetch"
    /\ Apply(s, Abort(chain[s], sessions, s, msg, now))

\* analyze returns a result
AnalyzeReturn(s, result) ==
    /\ chain[s].pc = "analyze"
    /\ Apply(s, Pair(Analyzed(chain[s], result, now), sessions))

\* analyze raises before its try block (analyzer.py, lines 59-80)
AnalyzeRaise(s, msg) ==
    /\ chain[s].pc = "analyze"
    /\ Apply(s, Abort(chain[s], sessions, s, msg, now))

\* verify returns its result to line 174
VerifyReturn(s, reply) ==
    /\ chain[s].pc = "verify"
    /\ Apply(s, Pair([chain[s] EXCEPT !.pc = "verified",
                                      !.verification = verify(reply),
                                      !.checker_fault = FailedStage(reply)],
                     sessions))

\* _solve_quiz_with_verification goes on from line 180
VerifyResume(s) ==
    /\ chain[s].pc = "verified"
    /\ Apply(s, Pair(Verified(chain[s], now), sessions))

\* client.post returns a response
PostReturn(s, status, body) ==
    /\ chain[s].pc = "post"
    /\ Apply(s, Pair(IF status = 200
                     THEN SubmitAnswered(chain[s], body)
                     ELSE SubmitFailed(chain[s], HttpReason(status)),
                     sessions))

\* client.post returns a 200 answer whose body is not a JSON object:
\* response.json() or result.get raises inside the try block (lines 253-257)
PostReturnUnreadable(s, msg) ==
    /\ chain[s].pc = "post"
    /\ Apply(s, Pair(SubmitFailed(chain[s], msg), sessions))

\* client.post raises
PostRaise(s, msg) ==
    /\ chain[s].pc = "post"
    /\ Apply(s, Pair(SubmitFailed(chain[s], msg), sessions))

\* asyncio.sleep(1) returns: continue with the next retry
SleepReturn(s) ==
    /\ chain[s].pc = "sleep"
    /\ Apply(s, Pair(SubmitLoop([chain[s] EXCEPT !.retry = @ + 1], now),
                     sessions))

\* process_quiz, lines 86-108, then the loop test
Record(s) ==
    /\ chain[s].pc = "record"
    /\ Apply(s, RecordAttempt(chain[s], sessions, s, now))

\* time passes
Tick ==
    /\ now + TimeStep <= MaxTime
    /\ \E s \in SessionIds : chain[s].pc \in Awaiting
    /\ now' = now + TimeStep
    /\ UNCHANGED <<settings, sessions, chain, fresh, responses, clock,
                   call>>

Next ==
    \/ \E req \in Requests : HandleQuiz(req)
    \/ \E s \in SessionIds : ProcessQuizStart(s)
    \/ \E s \in SessionIds, u \in {None, "submit"} : FetchReturn(s, u)
    \/ \E s \in SessionIds, msg \in ExcMessages : FetchRaise(s, msg)
    \/ \E s \in SessionIds :
         \E r \in AnalyzeResults(chain[s].attempt) : AnalyzeReturn(s, r)
    \/ \E s \in SessionIds, msg \in ExcMessages : AnalyzeRaise(s, msg)
    \/ \E s \in SessionIds, reply \in VerifierReplies : VerifyReturn(s, reply)
    \/ \E s \in SessionIds : VerifyResume(s)
    \/ \E s \in SessionIds, status \in StatusCodes :
         \E body \in Bodies(chain[s]) : PostReturn(s, status, body)
    \/ \E s \in SessionIds, msg \in JsonErrors : PostReturnUnreadable(s, msg)
    \/ \E s \in SessionIds, msg \in TransportErrors : PostRaise(s, msg)
    \/ \E s \in SessionIds : SleepReturn(s)
    \/ \E s \in SessionIds : Record(s)
    \/ Tick

Spec == Init /\ [][Next]_vars

\* ------------------------------------------------- a QuizTimer on its own
\* no request arrives; the configured timeout is any of TimerTimeouts
InitTimer ==
    /\ now = 0
    /\ settings \in [quiz_timeout : TimerTimeouts,
                     max_retries : {DefaultMaxRetries},
                     enable_verification : {TRUE},
                     email : {"me@example.com"},
                     quiz_secret : {"secret"}]
    /\ sessions = [x \in {} |-> NewSession(None, 0)]
    /\ chain = [s \in SessionIds |-> IdleChain]
    /\ fresh = {}
    /\ responses = <<>>
    /\ clock = NoClock
    /\ call = NoCall

\* QuizTimer() is built
TimerStart ==
    /\ ~clock.armed
    /\ clock' = [clock EXCEPT !.armed = TRUE, !.timer = QuizTimer(now)]
    /\ UNCHANGED <<now, settings, sessions, chain, fresh, responses,
                   call>>

\* should_continue(), remaining() and has_buffer_time() are called on the
\* timer
TimerRead ==
    /\ clock.armed
    /\ clock' = [clock EXCEPT
                    !.read = TRUE, !.read_at = now,
                    !.continues = should_continue(clock.timer, now),
                    !.remains = remaining(clock.timer, now),
                    !.buffer_time = has_buffer_time(clock.timer, now)]
    /\ UNCHANGED <<now, settings, sessions, chain, fresh, responses,
                   call>>

\* a second passes
TimerTick ==
    /\ now < MaxClock
    /\ now' = now + 1
    /\ UNCHANGED <<settings, sessions, chain, fresh, responses, clock,
                   call>>

NextTimer == TimerStart \/ TimerRead \/ TimerTick

SpecTimer == InitTimer /\ [][NextTimer]_vars

\* ------------------------------------- two chains on the shared store
\* the requests of two clients with the configured credentials, for
\* different quizzes
PairRequests ==
    [email : {"me@example.com"}, secret : {"secret"},
     url : {"first", "second"}]

\* the defaults of config.py, but one POST per submission and no
\* verification; two session ids can be drawn
InitPair ==
    /\ now = 0
    /\ settings \in [quiz_timeout : {DefaultQuizTimeout},
                     max_retries : {1},
                     enable_verification : {FALSE},
                     email : {"me@example.com"},
                     quiz_secret : {"secret"}]
    /\ sessions = [x \in {} |-> NewSession(None, 0)]
    /\ chain = [s \in SessionIds |-> IdleChain]
    /\ fresh = SessionIds
    /\ responses = <<>>
    /\ clock = NoClock
    /\ call = NoCall

\* the steps of the chains interleave at their awaits; every quiz page has
\* a submit URL and every POST is answered, and the chains end before the
\* time of the model advances
NextPair ==
    \/ \E req \in PairRequests :
         HandleQuizWithin(req, Cardinality(SessionIds))
    \/ \E s \in SessionIds : ProcessQuizStart(s)
    \/ \E s \in SessionIds : FetchReturn(s, "submit")
    \/ \E s \in SessionIds, msg \in ExcMessages : FetchRaise(s, msg)
    \/ \E s \in SessionIds :
         \E r \in AnalyzeResults(chain[s].attempt) : AnalyzeReturn(s, r)
    \/ \E s \in SessionIds, status \in StatusCodes :
         \E body \in Bodies(chain[s]) : PostReturn(s, status, body)
    \/ \E s \in SessionIds : Record(s)

SpecPair == InitPair /\ [][NextPair]_vars

\* --------------------------- a chain whose every answer gives a next URL
\* the steps a chain can have begun when the time of the model is t: every
\* step awaits the network, so only so many fit into a time step
StepsBy(t) == MaxQuizzes * (1 + t \div TimeStep)

\* the answers of the remote system to a POST: every one may give a next
\* URL, whatever the number of the quiz
LiveBodies ==
    {[correct |-> b, reason |-> IF b THEN None ELSE "wrong", url |-> u] :
        b \in BOOLEAN, u \in {None, "next"}}

\* a timeout at or above the submission buffer; one request, with the
\* configured credentials, is answered
InitLive ==
    /\ now = 0
    /\ settings \in [quiz_timeout : {30, 120},
                     max_retries : {DefaultMaxRetries},
                     enable_verification : {TRUE},
                     email : {"me@example.com"},
                     quiz_secret : {"secret"}]
    /\ sessions = [x \in {} |-> NewSession(None, 0)]
    /\ chain = [s \in SessionIds |-> IdleChain]
    /\ fresh = {"s1"}
    /\ responses = <<>>
    /\ clock = NoClock
    /\ call = NoCall

\* client.post returns a response of the remote system, which takes time
\* once the steps of this time step have been made
LivePostReturn(s, status, body) ==
    /\ chain[s].quiz_number <= StepsBy(now)
    /\ PostReturn(s, status, body)

\* client.post raises, in time as it returns
LivePostRaise(s, msg) ==
    /\ chain[s].quiz_number <= StepsBy(now)
    /\ PostRaise(s, msg)

\* time passes while a chain awaits a call
LiveTick ==
    /\ \A s \in SessionIds : chain[s].pc # "scheduled"
    /\ Tick

\* a step of chain s: the background task is run, or a call it awaits
\* returns or raises
ChainStep(s) ==
    \/ ProcessQuizStart(s)
    \/ \E u \in {None, "submit"} : FetchReturn(s, u)
    \/ \E msg \in ExcMessages : FetchRaise(s, msg)
    \/ \E r \in AnalyzeResults(chain[s].attempt) : AnalyzeReturn(s, r)
    \/ \E reply \in VerifierReplies : VerifyReturn(s, reply)
    \/ VerifyResume(s)
    \/ \E status \in StatusCodes, body \in LiveBodies :
         LivePostReturn(s, status, body)
    \/ \E msg \in TransportErrors : LivePostRaise(s, msg)
    \/ SleepReturn(s)
    \/ Record(s)

NextLive ==
    \/ \E req \in {r \in Requests : CredentialsMatch(r)} : HandleQuiz(req)
    \/ \E s \in SessionIds : ChainStep(s)
    \/ LiveTick

\* every call a chain awaits returns or raises, the event loop runs a task
\* that is ready, and time advances
SpecLive ==
    /\ InitLive
    /\ [][NextLive]_vars
    /\ \A s \in SessionIds : WF_vars(ChainStep(s))
    /\ WF_vars(LiveTick)

\* ---------------------------------------- a call of analyze on its own
\* confidences a model reply states, in hundredths; 150 is out of the range
\* AnalysisResult accepts
StatedConfidences == {0, 10, 20, 50, 80, 90, 100, 150}

\* the replies of the solver model: a JSON object with an answer, a
\* confidence and code (absent, empty or a program), or a text that is not
\* JSON
SolverReplies ==
    [json : {TRUE}, answer : {"stated"}, confidence : StatedConfidences,
     code : {None, "", "program"}, text : {"json"}]
    \cup {[json |-> FALSE, answer |-> None, confidence |-> 0, code |-> None,
           text |-> "free text"]}

\* what a run of the generated code prints, as lines
Outputs ==
    {<<>>, <<"42">>, <<"log", "7">>, <<"7", "">>, <<"", "">>,
     <<"{}", "done">>, <<"42", "{}">>}

\* the lines json.loads accepts that are not numbers, and the lines that
\* int or float accept
JsonLines == {"{}"}
NumberLines == {"42", "7"}

\* the value of a line: json.loads first, then int or float, then the line
\* itself, lines 170-186
ParsedLine(line) ==
    IF line \in JsonLines THEN "json " \o line
    ELSE IF line \in NumberLines THEN "number " \o line
    ELSE line

\* the text of an output: its lines joined by newlines
RECURSIVE Text(_)
Text(output) ==
    IF output = <<>> THEN ""
    ELSE IF Len(output) = 1 THEN output[1]
    ELSE output[1] \o "\n" \o Text(Tail(output))

\* the last line of an output that is not empty, or None
RECURSIVE LastLine(_)
LastLine(output) ==
    IF output = <<>> THEN None
    ELSE IF output[Len(output)] # "" THEN output[Len(output)]
    ELSE LastLine(SubSeq(output, 1, Len(output) - 1))

\* extract_result_from_output, lines 163-188: the value of the last line
\* that is not empty, or the output itself when there is none
extract_result_from_output(output) ==
    IF LastLine(output) # None THEN ParsedLine(LastLine(output))
    ELSE Text(output)

\* _parse_response, lines 320-347: the reply parsed as JSON into an
\* AnalysisResult, whose confidence must lie in [0, 1]; on any failure the
\* text is the answer, with confidence 0.5 and no code
parse_response(reply) ==
    IF reply.json /\ reply.confidence >= 0 /\ reply.confidence <= 100
    THEN [answer |-> reply.answer, confidence |-> reply.confidence,
          code_executed |-> reply.code]
    ELSE [answer |-> reply.text, confidence |-> 50, code_executed |-> None]

\* a failed run that leaves the confidence as it is
execute_and_refine_KeepsConfidence(result, success, output) ==
    IF success
    THEN [result EXCEPT !.answer = extract_result_from_output(output)]
    ELSE result

\* _execute_and_refine, lines 369-379: execute_code has returned; the
\* confidences are even, so that halving is exact
execute_and_refine(result, success, output) ==
    IF success
    THEN [result EXCEPT !.answer = extract_result_from_output(output)]
    ELSE [result EXCEPT !.confidence = @ \div 2]

InitSolver ==
    /\ now = 0
    /\ settings \in [quiz_timeout : {DefaultQuizTimeout},
                     max_retries : {DefaultMaxRetries},
                     enable_verification : {TRUE},
                     email : {"me@example.com"},
                     quiz_secret : {"secret"}]
    /\ sessions = [x \in {} |-> NewSession(None, 0)]
    /\ chain = [s \in SessionIds |-> IdleChain]
    /\ fresh = {}
    /\ responses = <<>>
    /\ clock = NoClock
    /\ call = NoCall

\* analyze, lines 83-93: the model call returns reply, which is parsed;
\* with code in the result execute_code is awaited, without the result is
\* returned
SolverReply(reply) ==
    /\ call.stage = "idle"
    /\ LET r == parse_response(reply)
       IN  call' = [call EXCEPT
                       !.stage = IF Truthy(r.code_executed)
                                 THEN "executing" ELSE "returned",
                       !.answer = r.answer,
                       !.confidence = r.confidence,
                       !.code_executed = r.code_executed,
                       !.stated = r.answer,
                       !.parsed_confidence = r.confidence]
    /\ UNCHANGED <<now, settings, sessions, chain, fresh, responses, clock>>

\* analyze, lines 95-103: the model call raises
SolverRaise ==
    /\ call.stage = "idle"
    /\ call' = [call EXCEPT !.stage = "returned", !.answer = "Error",
                            !.confidence = 0]
    /\ UNCHANGED <<now, settings, sessions, chain, fresh, responses, clock>>

\* execute_code returns (success, output); _execute_and_refine and analyze
\* return the result
ExecuteReturn(success, output) ==
    /\ call.stage = "executing"
    /\ LET r == execute_and_refine(
                    [answer |-> call.answer, confidence |-> call.confidence,
                     code_executed |-> call.code_executed], success, output)
       IN  call' = [call EXCEPT !.stage = "returned",
                               !.answer = r.answer,
                               !.confidence = r.confidence,
                               !.executions = @ + 1,
                               !.success = success,
                               !.output = output]
    /\ UNCHANGED <<now, settings, sessions, chain, fresh, responses, clock>>

NextSolver ==
    \/ \E reply \in SolverReplies : SolverReply(reply)
    \/ SolverRaise
    \/ \E success \in BOOLEAN, output \in Outputs :
         ExecuteReturn(success, output)

SpecSolver == InitSolver /\ [][NextSolver]_vars

\* ================================================================ claims
\* _submit_answer is running or has just returned in frame c, for a task
\* that has a submit URL
Submitting(c) == c.pc \in {"post", "sleep", "record"} /\ Truthy(c.submit_url)

\* every POST of the current call of _submit_answer has failed
AllPostsFailed(c) ==
    /\ Len(c.post_log) = c.posts
    /\ \A i \in 1..Len(c.post_log) : c.post_log[i] # "200"

\* C1: when _submit_answer runs on a task with a submit URL and
\* max_retries >= 1, a first POST is made whatever the timer says; if
\* should_continue() was false at entry, that POST is the only one.
C1_FirstPostAlwaysMade ==
    \A s \in SessionIds :
        (Submitting(chain[s]) /\ settings.max_retries >= 1)
            => /\ chain[s].posts >= 1
               /\ (~chain[s].entry_cont => chain[s].posts = 1)

\* C1 witness: _submit_answer has returned after one failed POST made with
\* the timer already out of time at entry, two retries being left unused
C1_Witness ==
    \E s \in SessionIds :
        /\ chain[s].pc = "record"
        /\ Truthy(chain[s].submit_url)
        /\ settings.max_retries = DefaultMaxRetries
        /\ ~chain[s].entry_cont
        /\ chain[s].posts = 1
        /\ chain[s].no_time

Recording(s) == chain[s].pc = "record" /\ chain'[s].pc # "record"

\* chain s starts a new step on the URL the submission returned
NewStep(s) ==
    /\ chain'[s].pc = "fetch"
    /\ chain'[s].quiz_number = chain[s].quiz_number + 1
    /\ chain'[s].current_url = chain[s].submission_result.next_url

C4_AbortMarksFailed ==
    \A s \in SessionIds :
        chain[s].raised
            => /\ chain[s].pc = "done"
               /\ sessions[s].status = "failed"
               /\ sessions[s].error = chain[s].exc

\* C5: a session is finalized exactly once: complete_session is never
\* called a second time for it, and once a session has left "processing" no
\* field of it changes again.
C5_FinalizedOnce ==
    \A s \in SessionIds :
        /\ chain[s].complete_calls <= 1
        /\ (chain[s].pc = "done" => chain[s].complete_calls = 1)

\* the indexes of the attempts of a session whose correct flag is set
CorrectIndexes(session) ==
    {i \in 1..Len(session.attempts) : session.attempts[i].correct}

\* C6: for every session of the store total_quizzes is the length of its
\* attempts and correct_answers the number of them that are correct, and the
\* attempts only grow by appending at the end.
C6_CountersMatchAttempts ==
    /\ [](\A s \in DOMAIN sessions :
            /\ sessions[s].total_quizzes = Len(sessions[s].attempts)
            /\ sessions[s].correct_answers
                   = Cardinality(CorrectIndexes(sessions[s])))
    /\ [][\A s \in DOMAIN sessions :
            \/ sessions'[s].attempts = sessions[s].attempts
            \/ /\ Len(sessions'[s].attempts) = Len(sessions[s].attempts) + 1
               /\ SubSeq(sessions'[s].attempts, 1, Len(sessions[s].attempts))
                      = sessions[s].attempts]_vars

\* C6 witness: a session holds two attempts, the first incorrect and the
\* second correct
C6_Witness ==
    \E s \in DOMAIN sessions :
        /\ Len(sessions[s].attempts) = 2
        /\ ~sessions[s].attempts[1].correct
        /\ sessions[s].attempts[2].correct
        /\ sessions[s].correct_answers = 1

\* _submit_answer has returned in frame c after POSTs that all failed
ReturnedAllFailed(c) ==
    /\ c.pc = "record"
    /\ Truthy(c.submit_url)
    /\ c.posts >= 1
    /\ AllPostsFailed(c)

\* C7: a submission whose every attempt failed is returned as an outcome
\* with correct = false and no next URL; recording it appends an attempt
\* with correct = false and that reason, and the session ends "completed".
C7_FailedSubmissionCompletes ==
    [][\A s \in SessionIds :
        ReturnedAllFailed(chain[s])
            => /\ ~chain[s].submission_result.correct
               /\ chain[s].submission_result.next_url = None
               /\ Recording(s)
                    => /\ Len(sessions'[s].attempts)
                              = Len(sessions[s].attempts) + 1
                       /\ LET a == sessions'[s].attempts[
                                       Len(sessions'[s].attempts)]
                          IN  /\ ~a.correct
                              /\ a.reason = chain[s].submission_result.reason
                              /\ a.quiz_number = chain[s].quiz_number
                       /\ chain'[s].pc = "done"
                       /\ ~chain'[s].raised
                       /\ sessions'[s].status = "completed"
                       /\ sessions'[s].error = None]_vars

\* C7 witness: a session is completed whose last attempt records three
\* failed POSTs ending in a transport error
C7_Witness ==
    \E s \in DOMAIN sessions :
        /\ chain[s].pc = "done"
        /\ sessions[s].status = "completed"
        /\ settings.max_retries = DefaultMaxRetries
        /\ Len(sessions[s].attempts) = 1
        /\ ~sessions[s].attempts[1].correct
        /\ sessions[s].attempts[1].reason \in TransportErrors

\* _submit_answer has returned in frame c with max_retries = 3 after POSTs
\* that were all answered HTTP 500
ReturnedAll500(c) ==
    /\ c.pc = "record"
    /\ Truthy(c.submit_url)
    /\ settings.max_retries = 3
    /\ c.posts >= 1
    /\ Len(c.post_log) = c.posts
    /\ \A i \in 1..Len(c.post_log) : c.post_log[i] = "HTTP 500"

Failure(reason) == [correct |-> FALSE, reason |-> reason, next_url |-> None]

\* C8 as stated: with max_retries = 3 and HTTP 500 answered to every POST,
\* exactly 3 POSTs are made and the outcome is correct = false, reason
\* "HTTP 500", no next URL.
C8_ThreePostsOn500 ==
    \A s \in SessionIds :
        ReturnedAll500(chain[s])
            => /\ chain[s].posts = 3
               /\ chain[s].submission_result = Failure("HTTP 500")

\* C8 amended: the same holds provided no retry is given up because
\* should_continue() is false; when one is, fewer than 3 POSTs are made and
\* the reason is "Max retries exceeded".
C8_ThreePostsOn500IfTime ==
    \A s \in SessionIds :
        ReturnedAll500(chain[s])
            => IF chain[s].no_time
               THEN /\ chain[s].posts < 3
                    /\ ~should_continue(chain[s].timer, now)
                    /\ chain[s].submission_result
                           = Failure("Max retries exceeded")
               ELSE /\ chain[s].posts = 3
                    /\ chain[s].submission_result = Failure("HTTP 500")

\* C8 witness: three POSTs answered HTTP 500 and the outcome returned
C8_Witness ==
    \E s \in SessionIds :
        /\ ReturnedAll500(chain[s])
        /\ chain[s].posts = 3
        /\ chain[s].submission_result.reason = "HTTP 500"

\* _submit_answer has returned in frame c after max_retries POSTs that all
\* failed
ReturnedExhausted(c) ==
    /\ ReturnedAllFailed(c)
    /\ c.posts = settings.max_retries

\* C9 as stated: when all max_retries attempts were used and failed, the
\* reason of the outcome is "max retries exceeded".
C9_ExhaustedReason ==
    \A s \in SessionIds :
        ReturnedExhausted(chain[s])
            => chain[s].submission_result.reason = "Max retries exceeded"

\* C9 amended: when all max_retries attempts were used and failed, the
\* reason is the detail of the last failed attempt (HTTP status or error
\* text); "Max retries exceeded" is the reason exactly when the loop ends
\* without a return: a retry given up for lack of time, or max_retries = 0.
C9_ExhaustedReasonIsDetail ==
    \A s \in SessionIds :
        /\ ReturnedExhausted(chain[s])
               => chain[s].submission_result
                      = Failure(chain[s].post_log[Len(chain[s].post_log)])
        /\ (chain[s].pc = "record" /\ Truthy(chain[s].submit_url))
               => (chain[s].submission_result.reason = "Max retries exceeded"
                       <=> (chain[s].no_time \/ settings.max_retries = 0))

\* C9 witness: three POSTs failed, the last with a transport error, which is
\* the reason returned
C9_Witness ==
    \E s \in SessionIds :
        /\ ReturnedExhausted(chain[s])
        /\ settings.max_retries = 3
        /\ chain[s].post_log[1] = "HTTP 500"
        /\ chain[s].submission_result.reason \in TransportErrors

\* C10: for a task without a submit URL _submit_answer returns at once
\* correct = false, reason "No submit URL found", no next URL, having made
\* no POST and no retry, whatever the timer and max_retries are.
C10_NoSubmitUrl ==
    \A s \in SessionIds :
        (chain[s].pc \in {"post", "sleep", "record"}
             /\ ~Truthy(chain[s].submit_url))
            => /\ chain[s].pc = "record"
               /\ chain[s].submission_result = Failure("No submit URL found")
               /\ chain[s].posts = 0
               /\ chain[s].post_log = <<>>
               /\ chain[s].retry = 0
               /\ ~chain[s].no_time

\* C10 witness: the outcome for a task without a submit URL, returned with
\* the timer out of time and max_retries = 3
C10_Witness ==
    \E s \in SessionIds :
        /\ chain[s].pc = "record"
        /\ ~Truthy(chain[s].submit_url)
        /\ ~chain[s].entry_cont
        /\ settings.max_retries = DefaultMaxRetries
        /\ chain[s].submission_result.reason = "No submit URL found"

\* ------------------------------------------------------------------- C11
\* frame c is inside _solve_quiz_with_verification
Solving(c) == c.pc \in {"analyze", "verify", "verified"}

\* C11: in one run of _solve_quiz_with_verification, whatever the verifier
\* answers, analyze is called again at most MaxRefinementIterations (2) times
\* and verify at most 2 times, so a step calls analyze at most 3 times.
C11_BoundedRefinement ==
    \A s \in SessionIds :
        Solving(chain[s])
            => /\ chain[s].solver_calls >= 1
               /\ chain[s].solver_calls - 1 <= MaxRefinementIterations
               /\ chain[s].solver_calls - 1 = chain[s].attempt
               /\ chain[s].checker_calls <= 2
               /\ chain[s].solver_calls <= 3

\* C11 witness: the verifier has rejected twice with feedback and the third
\* analyze call is awaited
C11_Witness ==
    \E s \in SessionIds :
        /\ chain[s].pc = "analyze"
        /\ chain[s].solver_calls = 3
        /\ chain[s].checker_calls = 2

\* ------------------------------------------------------------------- C12
\* a step of chain s in which _solve_quiz_with_verification returns
SolveReturns(c, d) == Solving(c) /\ d.pc \in {"post", "record"}

\* C12: _solve_quiz_with_verification returns the result of the initial
\* analyze call, having made no further analyze call, when verification is
\* disabled, when has_buffer_time() is false at line 165, and when the model
\* call of the verifier fails at every verify call; in the first two cases
\* verify is never called.
C12_InitialResultReturned ==
    [][\A s \in SessionIds :
         LET c == chain[s]
             d == chain'[s]
         IN  /\ (/\ c.pc = "analyze" /\ c.iteration < 0
                 /\ d # c /\ ~d.raised
                 /\ \/ ~settings.enable_verification
                    \/ ~has_buffer_time(c.timer, now))
                    => /\ SolveReturns(c, d)
                       /\ c.solver_calls = 1
                       /\ c.checker_calls = 0
                       /\ d.initial_result \in AnalyzeResults(0)
                       /\ d.analysis_result = d.initial_result
             /\ (/\ c.pc = "verified" /\ c.checker_fault = "call"
                 /\ c.checker_calls = 1 /\ d # c)
                    => /\ SolveReturns(c, d)
                       /\ c.solver_calls = 1
                       /\ d.analysis_result = c.initial_result
             /\ c.pc \in {"verify", "verified"}
                    => settings.enable_verification /\ c.entry_buffer
             /\ (c.pc \in {"post", "sleep", "record"}
                     /\ Truthy(c.initial_result.answer)
                     /\ (~settings.enable_verification \/ ~c.entry_buffer))
                    => c.analysis_result = c.initial_result]_vars

\* C12 witness: verification is enabled, has_buffer_time() was false at line
\* 165, and the initial result is being submitted
C12_Witness ==
    \E s \in SessionIds :
        /\ chain[s].pc = "post"
        /\ settings.enable_verification
        /\ ~chain[s].entry_buffer
        /\ Truthy(chain[s].initial_result.answer)
        /\ chain[s].analysis_result = chain[s].initial_result

C14_AnalyzeNeverRaises ==
    [][\A s \in SessionIds :
         chain[s].pc = "analyze" => ~chain'[s].raised]_vars

\* ------------------------------------------------------------------- C15
\* C15: for a timer with timeout B and submission buffer R, should_continue()
\* read when no time has passed since the start is true iff R < B; read
\* when more than B - R seconds have passed it is false, and once it has been
\* false it is false at every later reading of the same timer; with R >= B
\* it is never true.  Time does not go backwards.
C15_ShouldContinue ==
    [][LET B == clock.timer.timeout
           R == clock.timer.submission_buffer
       IN  /\ clock.read
               => /\ clock.read_at = clock.timer.start_time
                      => (clock.continues <=> R < B)
                  /\ elapsed(clock.timer, clock.read_at) > B - R
                      => ~clock.continues
                  /\ R >= B => ~clock.continues
           /\ (clock.read /\ ~clock.continues /\ clock'.read)
               => /\ ~clock'.continues
                  /\ clock'.timer = clock.timer]_vars

\* C15 witness: a timer with R < B, started after the epoch of the model,
\* read false after more than B - R seconds and before it has expired
C15_Witness ==
    /\ clock.read
    /\ ~clock.continues
    /\ clock.timer.start_time > 0
    /\ clock.timer.submission_buffer < clock.timer.timeout
    /\ elapsed(clock.timer, clock.read_at)
           > clock.timer.timeout - clock.timer.submission_buffer
    /\ clock.remains > 0

\* ------------------------------------------------------------------- C16
\* C16 as stated: when a chain starts a network-bound call (page fetch, model
\* call of analyze or verify, submission POST), the timeout given to the call
\* is no longer than get_timeout_for_operation() of the chain's timer at
\* that time.
C16_TimeoutsFromAllocation ==
    [][\A s \in SessionIds :
         (chain'[s].pc \in NetworkCalls /\ chain'[s].pc # chain[s].pc)
             => CallTimeout(chain'[s])
                    <= get_timeout_for_operation(chain'[s].timer, now')]_vars

\* ------------------------------------------------------------------- C17
\* the answers of POST /quiz that accepted the request
Accepted == {i \in 1..Len(responses) : responses[i].status = 200}

C18_RetryOnlyIfFailedAndTime ==
    [][\A s \in SessionIds :
         LET c == chain[s]
             d == chain'[s]
         IN  /\ Submitting(c) => c.posts <= settings.max_retries
             /\ (d.posts = c.posts + 1 /\ c.posts >= 1)
                   => /\ c.pc = "sleep"
                      /\ d.pc = "post"
                      /\ Len(c.post_log) = c.posts
                      /\ c.post_log[c.posts] # "200"
                      /\ c.posts < settings.max_retries
                      /\ should_continue(d.timer, now')
             /\ (c.pc = "sleep" /\ d # c /\ ~should_continue(c.timer, now))
                   => /\ d.pc = "record"
                      /\ d.posts = c.posts]_vars

\* C18 witness: the second POST failed too and the third is being made, with
\* time left
C18_Witness ==
    \E s \in SessionIds :
        /\ chain[s].pc = "post"
        /\ chain[s].posts = 3
        /\ Len(chain[s].post_log) = 2
        /\ should_continue(chain[s].timer, now)

\* ------------------------------------------------------------------- C19
\* C19 as stated: when _submit_answer gives up a retry for lack of time,
\* with retries remaining, the failure it returns has the detail of the
\* failed POST (the HTTP status or the transport error text) as its reason.
C19_NoTimeReasonIsDetail ==
    \A s \in SessionIds :
        (chain[s].pc = "record" /\ chain[s].no_time)
            => /\ chain[s].post_log # <<>>
               /\ chain[s].submission_result
                      = Failure(chain[s].post_log[Len(chain[s].post_log)])

\* ------------------------------------------------------------------- C20
\* the POSTs of the current call of _submit_answer that were answered 200
Answered200(c) ==
    {i \in 1..Len(c.post_log) : c.post_log[i] \in {"200"} \cup JsonErrors}

\* C20 as stated: a 200 answer to a POST ends _submit_answer at once; no
\* POST, and no wait for one, follows it.
C20_Status200Ends ==
    \A s \in SessionIds :
        \A i \in Answered200(chain[s]) :
            /\ chain[s].pc = "record"
            /\ i = Len(chain[s].post_log)
            /\ chain[s].posts = i

\* C20 amended: a 200 answer whose body is a JSON object ends _submit_answer
\* at once, whether it says correct or incorrect: the body's correct, reason
\* and url are returned and no further POST is made.  A 200 answer whose
\* body is not a JSON object is a failed attempt: its error text is the
\* detail, and it is retried like any other failure.
C20_Parsed200Ends ==
    [][\A s \in SessionIds :
         LET c == chain[s]
             d == chain'[s]
         IN  /\ \A i \in 1..Len(c.post_log) :
                   c.post_log[i] = "200"
                       => /\ c.pc = "record"
                          /\ i = Len(c.post_log)
                          /\ c.posts = i
                          /\ c.submission_result
                                 = [correct |-> c.last_body.correct,
                                    reason |-> c.last_body.reason,
                                    next_url |-> c.last_body.url]
             /\ (c.pc = "post" /\ d.post_log = Append(c.post_log, "200"))
                   => /\ d.pc = "record"
                      /\ d.posts = c.posts
                      /\ d.last_body \in Bodies(c)
             /\ (c.pc = "post" /\ Len(d.post_log) = Len(c.post_log) + 1
                 /\ d.post_log[Len(d.post_log)] \in JsonErrors)
                   => IF RetriesRemain(c)
                      THEN d.pc = "sleep"
                      ELSE /\ d.pc = "record"
                           /\ d.submission_result
                                  = Failure(d.post_log[Len(d.post_log)])]_vars

\* C20 witness: the first POST was answered 200 with correct = false; the
\* call has returned that body although two retries and time remained
C20_Witness ==
    \E s \in SessionIds :
        /\ chain[s].pc = "record"
        /\ chain[s].post_log = <<"200">>
        /\ ~chain[s].submission_result.correct
        /\ chain[s].submission_result.reason = "wrong"
        /\ chain[s].posts = 1
        /\ settings.max_retries = DefaultMaxRetries
        /\ should_continue(chain[s].timer, now)

\* ------------------------------------------------------------------- C21
\* C21: when the verifier has rejected with feedback in both rounds, the
\* loop returns the result of the second regeneration (the third analyze
\* call), not the initial one, as soon as that call returns; no third verify
\* call is made, whatever the verifier would have answered.
C21_LastRegenerationReturned ==
    [][\A s \in SessionIds :
         LET c == chain[s]
             d == chain'[s]
         IN  /\ (/\ c.pc = "analyze"
                 /\ c.solver_calls = MaxRefinementIterations + 1
                 /\ d # c /\ ~d.raised)
                   => /\ SolveReturns(c, d)
                      /\ c.checker_calls = MaxRefinementIterations
                      /\ d.analysis_result
                             \in AnalyzeResults(MaxRefinementIterations)
                      /\ d.analysis_result # d.initial_result
                      /\ d.initial_result = c.initial_result
             /\ d.pc = "verify" => d.checker_calls <= MaxRefinementIterations
        ]_vars

\* C21 witness: the result of the second regeneration is being submitted
C21_Witness ==
    \E s \in SessionIds :
        /\ chain[s].pc = "post"
        /\ chain[s].initial_result \in AnalyzeResults(0)
        /\ chain[s].analysis_result
               \in AnalyzeResults(MaxRefinementIterations)

\* ------------------------------------------------------------------- C22
\* C22: when verify returns an approval, with or without feedback, the loop
\* returns the result that was checked and calls neither analyze nor verify
\* again; an approval at the first verify call leaves the step with the one
\* initial analyze call and no regeneration.
C22_ApprovalEndsLoop ==
    [][\A s \in SessionIds :
         LET c == chain[s]
             d == chain'[s]
         IN  (c.pc = "verified" /\ c.verification.approved /\ d # c)
                 => /\ SolveReturns(c, d)
                    /\ d.analysis_result = c.analysis_result
                    /\ c.checker_calls = 1
                          => /\ c.solver_calls = 1
                             /\ c.attempt = 0
                             /\ d.analysis_result = d.initial_result]_vars

\* C22 witness: the first verify call has approved, with a remark as
\* feedback, the one analyze call of the step
C22_Witness ==
    \E s \in SessionIds :
        /\ chain[s].pc = "verified"
        /\ chain[s].verification.approved
        /\ Truthy(chain[s].verification.feedback)
        /\ chain[s].checker_calls = 1
        /\ chain[s].solver_calls = 1

\* ------------------------------------------------------------------- C23
\* C23: a round of the verification loop starts a verify call only if
\* should_continue() is true at its start; when it is false the loop returns
\* the current result, in a later round as in the first, so no verify call
\* and no regeneration is made in such a round.
C23_NoRoundWithoutTime ==
    [][\A s \in SessionIds :
         LET c == chain[s]
             d == chain'[s]
         IN  /\ (d.pc = "verify" /\ c.pc # "verify")
                   => should_continue(d.timer, now')
             /\ (d.pc = "analyze" /\ c.pc = "verified")
                   => d.checker_calls = d.solver_calls - 1
             /\ (/\ c.pc = "analyze" /\ d # c /\ ~d.raised
                 /\ ~should_continue(c.timer, now))
                   => /\ SolveReturns(c, d)
                      /\ d.analysis_result \in AnalyzeResults(c.attempt)]_vars

\* C23 witness: the first round has run and rejected, and the regeneration
\* it asked for is awaited at a time when should_continue() is false
C23_Witness ==
    \E s \in SessionIds :
        /\ chain[s].pc = "analyze"
        /\ chain[s].solver_calls = 2
        /\ chain[s].checker_calls = 1
        /\ ~should_continue(chain[s].timer, now)

\* ------------------------------------------------------------------- C24
\* C24: when verify returns a rejection whose feedback is absent or empty,
\* the loop returns the current result and calls neither analyze nor verify
\* again.
C24_RejectionWithoutFeedbackEndsLoop ==
    [][\A s \in SessionIds :
         LET c == chain[s]
             d == chain'[s]
         IN  (/\ c.pc = "verified" /\ d # c
              /\ ~c.verification.approved
              /\ c.verification.feedback \in {None, ""})
                 => /\ SolveReturns(c, d)
                    /\ d.analysis_result = c.analysis_result]_vars

\* C24 witness: the second verify call has rejected the regenerated result
\* with an empty feedback text
C24_Witness ==
    \E s \in SessionIds :
        /\ chain[s].pc = "verified"
        /\ ~chain[s].verification.approved
        /\ chain[s].verification.feedback = ""
        /\ chain[s].checker_calls = 2
        /\ chain[s].analysis_result \in AnalyzeResults(1)

\* ------------------------------------------------------------------- C25
\* C25: a call of analyze whose parsed reply carries code runs the code
\* exactly once before it returns: after a successful run the answer is what
\* extract_result_from_output takes from the output and the confidence is
\* the parsed one; after a failed run the answer is the stated one and the
\* confidence is half the parsed one.  A call without code runs nothing.  The
\* confidence returned is within [0, 1].
C25_CodeRunOnce ==
    /\ call.stage = "returned"
          => /\ call.confidence >= 0 /\ call.confidence <= 100
             /\ call.executions = IF Truthy(call.code_executed) THEN 1 ELSE 0
             /\ Truthy(call.code_executed)
                   => IF call.success
                      THEN /\ call.answer
                                  = extract_result_from_output(call.output)
                           /\ call.confidence = call.parsed_confidence
                      ELSE /\ call.answer = call.stated
                           /\ call.confidence * 2 = call.parsed_confidence
    /\ call.stage = "executing"
          => Truthy(call.code_executed) /\ call.executions = 0

\* C25 witness: the code of a reply with confidence 0.9 has failed, and the
\* stated answer is returned with confidence 0.45
C25_Witness ==
    /\ call.stage = "returned"
    /\ call.executions = 1
    /\ ~call.success
    /\ call.parsed_confidence = 90
    /\ call.confidence = 45
    /\ call.answer = "stated"

\* ------------------------------------------------------------------- C26
\* C26: at every reading of a timer, remaining() is max(0, timeout -
\* elapsed()), should_continue() is true exactly when remaining() is greater
\* than the submission buffer, and has_buffer_time() has the value of
\* should_continue(); so has_buffer_time() is false whenever
\* should_continue() is.
C26_RemainingAndBuffer ==
    clock.read
       => LET passed == clock.read_at - clock.timer.start_time
              left == clock.timer.timeout - passed
          IN  /\ clock.remains = (IF left > 0 THEN left ELSE 0)
              /\ clock.continues
                    <=> clock.remains > clock.timer.submission_buffer
              /\ clock.buffer_time = clock.continues
              /\ ~clock.continues => ~clock.buffer_time

\* C26 witness: a timer read when exactly the submission buffer remains:
\* neither should_continue() nor has_buffer_time() is true
C26_Witness ==
    /\ clock.read
    /\ clock.read_at > clock.timer.start_time
    /\ clock.remains = clock.timer.submission_buffer
    /\ clock.remains > 0
    /\ ~clock.continues
    /\ ~clock.buffer_time

\* ------------------------------------------------------------------- C27
\* the order of the awaits of one chain: the fetch, the calls of the solver
\* and the checker, the POSTs and the pauses between them, the recording,
\* then the fetch of the next step or the end; an exception ends the chain
StepOrder(p, q) ==
    \/ p = "idle" /\ q = "scheduled"
    \/ p = "scheduled" /\ q \in {"fetch", "done"}
    \/ p = "fetch" /\ q \in {"analyze", "done"}
    \/ p = "analyze" /\ q \in {"verify", "post", "record", "done"}
    \/ p = "verify" /\ q = "verified"
    \/ p = "verified" /\ q \in {"analyze", "post", "record"}
    \/ p = "post" /\ q \in {"sleep", "record"}
    \/ p = "sleep" /\ q \in {"post", "record"}
    \/ p = "record" /\ q \in {"fetch", "done"}

\* C27: a chain is at one place of one step at a time and moves through
\* fetch, solve, submit, record in this order; the attempts of its session
\* grow only when the chain leaves the recording of a step, after
\* _submit_answer has returned, and then by exactly one; the k-th attempt of
\* a session has quiz_number k, and inside step n the session holds n - 1
\* attempts.
C27_OneAttemptPerStepInOrder ==
    [][\A s \in SessionIds :
          /\ chain'[s].pc # chain[s].pc
                => StepOrder(chain[s].pc, chain'[s].pc)
          /\ s \in DOMAIN sessions
                => /\ s \in DOMAIN sessions'
                   /\ Len(sessions'[s].attempts)
                          = Len(sessions[s].attempts)
                            + (IF chain[s].pc = "record"
                                  /\ chain'[s].pc # "record"
                               THEN 1 ELSE 0)
                   /\ \A k \in 1..Len(sessions'[s].attempts) :
                          sessions'[s].attempts[k].quiz_number = k
                   /\ chain'[s].pc \in {"fetch", "analyze", "verify",
                                        "verified", "post", "sleep",
                                        "record"}
                         => Len(sessions'[s].attempts)
                                = chain'[s].quiz_number - 1]_vars

\* C27 witness: _submit_answer has returned in the second step of a chain,
\* whose session holds the attempt of the first step only
C27_Witness ==
    \E s \in DOMAIN sessions :
        /\ chain[s].pc = "record"
        /\ chain[s].quiz_number = 2
        /\ Len(sessions[s].attempts) = 1
        /\ sessions[s].attempts[1].quiz_number = 1

\* ------------------------------------------------------------------- C30
\* the loop of chain s ends in this step at its test, with a URL pending and
\* should_continue() false: before the first step, or after a step whose
\* submission result gave a next URL
LoopEndsOnTime(s) ==
    /\ chain'[s].pc = "done"
    /\ ~should_continue(chain'[s].timer, now)
    /\ \/ chain[s].pc = "scheduled" /\ Truthy(chain'[s].current_url)
       \/ /\ chain[s].pc = "record"
          /\ Truthy(chain[s].submission_result.next_url)

\* C30: when the loop of process_quiz ends at its test because
\* should_continue() is false while a URL is pending, the session becomes
\* 'completed' with no error and no exception is raised; when this happens
\* before the first step, which it does whenever the configured timeout is
\* not greater than the submission buffer, the session has no attempt and
\* neither a fetch nor a POST has been made.
C30_TimeUpCompletes ==
    [][\A s \in SessionIds :
          /\ LoopEndsOnTime(s)
                => /\ sessions'[s].status = "completed"
                   /\ sessions'[s].error = None
                   /\ ~chain'[s].raised
                   /\ chain[s].pc = "scheduled"
                         => /\ sessions'[s].attempts = <<>>
                            /\ sessions'[s].total_quizzes = 0
                            /\ chain'[s].posts = 0
                            /\ chain'[s].solver_calls = 0
          /\ (/\ chain[s].pc = "scheduled"
              /\ chain'[s].pc # "scheduled"
              /\ settings.quiz_timeout <= SubmissionBuffer)
                => LoopEndsOnTime(s) /\ chain'[s].pc # "fetch"]_vars

\* C30 witness: a session with one attempt whose next URL was not followed,
\* completed without error when no time was left for another step
C30_Witness ==
    \E s \in DOMAIN sessions :
        /\ chain[s].pc = "done"
        /\ sessions[s].status = "completed"
        /\ sessions[s].error = None
        /\ Len(sessions[s].attempts) = 1
        /\ Truthy(sessions[s].attempts[1].next_url)
        /\ ~should_continue(chain[s].timer, sessions[s].end_time)

\* ------------------------------------------------------------------- C28
\* C28: with two chains running on the one orchestrator and the one store,
\* in every interleaving a step changes the session of at most one chain,
\* the chain that takes the step; the attempts of a session grow only by the
\* attempt its own chain built, appended at the end; total_quizzes and
\* correct_answers of every session are the counts of its attempts; and the
\* step that finalizes a session leaves every other session as it was.
C28_SessionsIsolated ==
    /\ [](\A s \in DOMAIN sessions :
            /\ sessions[s].total_quizzes = Len(sessions[s].attempts)
            /\ sessions[s].correct_answers = CountCorrect(sessions[s].attempts)
            /\ \A k \in 1..Len(sessions[s].attempts) :
                  sessions[s].attempts[k].quiz_number = k)
    /\ [][\A s \in DOMAIN sessions :
            sessions'[s] # sessions[s]
               => /\ chain'[s] # chain[s]
                  /\ \A x \in DOMAIN sessions \ {s} :
                        sessions'[x] = sessions[x] /\ chain'[x] = chain[x]
                  /\ sessions'[s].attempts # sessions[s].attempts
                        => /\ chain[s].pc = "record"
                           /\ sessions'[s].attempts
                                 = Append(sessions[s].attempts,
                                          QuizAttempt(chain[s], now))]_vars

\* C28 witness: one session was completed after its attempt was recorded while
\* the other, with an attempt for the other quiz, is still being processed
C28_Witness ==
    /\ DOMAIN sessions = {"s1", "s2"}
    /\ sessions["s1"].status = "completed"
    /\ Len(sessions["s1"].attempts) = 1
    /\ sessions["s2"].status = "processing"
    /\ Len(sessions["s2"].attempts) = 1
    /\ sessions["s1"].attempts[1].url # sessions["s2"].attempts[1].url
    /\ chain["s2"].pc = "post"

\* ------------------------------------------------------------------- C29
\* the session of chain s has left 'processing' and process_quiz has ended
Terminated(s) ==
    /\ chain[s].pc = "done"
    /\ s \in DOMAIN sessions
    /\ sessions[s].status \in {"completed", "failed"}

\* C29: when every call a chain awaits returns or raises and time advances,
\* every chain that was launched ends, with its session 'completed' or
\* 'failed', also when every answer of the remote system gives a next URL.
C29_ChainTerminates ==
    \A s \in SessionIds : (chain[s].pc = "scheduled") ~> Terminated(s)

\* C29 witness: a chain has ended with more than MaxQuizzes attempts, every
\* one of which gave a next URL
C29_Witness ==
    \E s \in DOMAIN sessions :
        /\ Terminated(s)
        /\ Len(sessions[s].attempts) > MaxQuizzes
        /\ \A k \in 1..Len(sessions[s].attempts) :
              Truthy(sessions[s].attempts[k].next_url)

====
